---- MODULE Spec2Model ----
\* Model of the task-manager route handlers (src/app/api/**/route.ts) running
\* against the tables, CHECK constraints and row-level-security policies of the
\* SQL schema in src/middleware.ts.
EXTENDS Integers, Sequences, FiniteSets, TLC

\* ---------------------------------------------------------------- bounds
NumUsers == 2
MaxTasks == 2
MaxLen == 2
MaxFields == 2
MaxRows == 2
MaxPieces == 2
MaxRequests == 2
MaxHops == 3

\* ---------------------------------------------------------------- constants
\* .limit(10) of the user search
SearchLimit == 10

\* ---------------------------------------------------------------- JSON values
\* A JSON body field is absent (undefined after destructuring), null or a
\* value; a nullable column is Null or a value.
Absent == [k |-> "absent"]
Null == [k |-> "null"]
Val(x) == [k |-> "val", v |-> x]

\* Text is a sequence of characters.
Alphabet == {" ", "a"}
Strings == UNION {[1..n -> Alphabet] : n \in 0..MaxLen}

RECURSIVE TrimStart(_)
TrimStart(s) ==
  IF s = <<>> THEN s
  ELSE IF Head(s) = " " THEN TrimStart(Tail(s)) ELSE s

RECURSIVE TrimEnd(_)
TrimEnd(s) ==
  IF s = <<>> THEN s
  ELSE IF s[Len(s)] = " " THEN TrimEnd(SubSeq(s, 1, Len(s) - 1)) ELSE s

\* String.prototype.trim
Trim(s) == TrimEnd(TrimStart(s))

\* JavaScript truthiness of a body field that is undefined, null or a string
\* (the empty string is falsy)
Truthy(x) == x.k = "val" /\ x.v # <<>>

\* The same for a field whose strings are never empty (status, priority, ...)
TruthyAtom(x) == x.k = "val"

\* x || null
OrNull(x) == IF Truthy(x) THEN x ELSE Null
AtomOrNull(x) == IF TruthyAtom(x) THEN x ELSE Null

\* x || d
AtomOr(x, d) == IF TruthyAtom(x) THEN x ELSE Val(d)

\* x?.trim() || null
TrimOrNull(x) == IF x.k = "val" THEN OrNull(Val(Trim(x.v))) ELSE Null

\* ---------------------------------------------------------------- users
Users == 1..NumUsers
NoUser == 0
Callers == Users \cup {NoUser}

\* profiles.email (UNIQUE NOT NULL), written by the signup trigger
Digit(d) == <<"0", "1", "2", "3", "4", "5", "6", "7", "8", "9">>[d + 1]

\* The decimal numeral of a user's number
RECURSIVE Decimal(_)
Decimal(u) == IF u < 10 THEN <<Digit(u)>> ELSE Decimal(u \div 10) \o <<Digit(u % 10)>>

Email(u) == <<"u">> \o Decimal(u) \o <<"@", "x">>
UnknownEmail == <<"n", "o", "@", "x">>

\* ---------------------------------------------------------------- schema
\* CHECK (status IN (...)) and CHECK (priority IN (...)) of CREATE TABLE tasks
StatusValues == {"todo", "in_progress", "completed"}
PriorityValues == {"low", "medium", "high", "urgent"}

\* A CHECK constraint is satisfied when its expression is true or NULL.
CheckIn(x, allowed) == x = Null \/ (x.k = "val" /\ x.v \in allowed)

TaskIds == 1..MaxTasks
NoRow == [k |-> "norow"]

TaskFields == {"title", "description", "status", "priority", "due_date", "category"}

\* ---------------------------------------------------------------- request bodies
TitleInputs == {Absent, Null} \cup {Val(s) : s \in Strings}
DescInputs == {Absent, Null, Val(<<" ">>), Val(<<"a", " ">>)}
StatusInputs == {Absent, Null, Val("completed"), Val("bogus")}
PriorityInputs == {Absent, Null, Val("low"), Val("bogus")}
DueInputs == {Absent, Null, Val("2025-01-01")}
CategoryInputs == {Absent, Null, Val("work")}
OwnerInputs == {Absent} \cup {Val(u) : u \in Users}

BodyFields == TaskFields \cup {"user_id"}

Present(b) == {f \in BodyFields : b[f] # Absent}

\* The values of a field in the bodies whose present fields are exactly F
InputsOf(S, f, F) == IF f \in F THEN S \ {Absent} ELSE {Absent}

BodiesWith(F) ==
  [title : InputsOf(TitleInputs, "title", F),
   description : InputsOf(DescInputs, "description", F),
   status : InputsOf(StatusInputs, "status", F),
   priority : InputsOf(PriorityInputs, "priority", F),
   due_date : InputsOf(DueInputs, "due_date", F),
   category : InputsOf(CategoryInputs, "category", F),
   user_id : InputsOf(OwnerInputs, "user_id", F)]

\* Bodies of POST /api/tasks and PATCH /api/tasks/[id] with at most MaxFields
\* fields present.
FieldBodies ==
  UNION {BodiesWith(F) : F \in {S \in SUBSET BodyFields : Cardinality(S) <= MaxFields}}

\* The bodies used where the access rules, not the field handling, are explored.
CoreBodies ==
  {b \in FieldBodies :
     /\ b.title \in {Absent, Val(<<"a">>)}
     /\ b.status \in {Absent, Val("completed")}
     /\ \A f \in BodyFields \ {"title", "status"} : b[f] = Absent}

\* The rows of a table that hangs off tasks: comments and attachments
RowIds == 1..MaxRows

VARIABLES tasks, shares, nextId, last, comments, attachments,
          nextCommentId, nextAttachmentId, browser, inflight, view

vars == <<tasks, shares, nextId, last, comments, attachments,
          nextCommentId, nextAttachmentId, browser, inflight, view>>

\* The comments and attachments tables and their id generators
dependents == <<comments, attachments, nextCommentId, nextAttachmentId>>

\* What a route handler that answers in one step leaves alone: the browser's
\* session and location, the requests that are answered step by step, and the
\* state of the components the browser shows
elsewhere == <<browser, inflight, view>>

\* No request is being answered.
Idle == [op |-> "none"]

\* The browser before it has loaded a page
NoPage == <<"about:blank">>

\* The requests answered step by step, each in a slot of its own
Slots == 1..MaxRequests
NoRequest == [pc |-> "none"]

\* The components before the dashboard is shown: TaskList's userId, tasks and
\* loading, and ShareModal's searchQuery, searchResults and debounce timer
NoView ==
  [userId |-> NoUser, tasks |-> <<>>, loading |-> TRUE,
   searchQuery |-> <<>>, searchResults |-> {}, timer |-> FALSE]

Init ==
  /\ tasks = [t \in TaskIds |-> NoRow]
  /\ shares = {}
  /\ nextId = 1
  /\ last = Idle
  /\ comments = {}
  /\ attachments = {}
  /\ nextCommentId = 1
  /\ nextAttachmentId = 1
  /\ browser = [session |-> NoUser, path |-> NoPage, redirectedFrom |-> Absent]
  /\ inflight = [r \in Slots |-> NoRequest]
  /\ view = NoView

\* ---------------------------------------------------------------- row-level security
\* POLICY "Users can view own tasks" ON tasks FOR SELECT
TaskVisible(uid, t) ==
  /\ t \in TaskIds
  /\ tasks[t] # NoRow
  /\ \/ tasks[t].user_id = uid
     \/ \E s \in shares : s.task_id = t /\ s.shared_with_user_id = uid

\* POLICY "Users can view relevant task shares" ON task_shares FOR SELECT
ShareVisible(uid, s) ==
  s.shared_by_user_id = uid \/ s.shared_with_user_id = uid

\* task_shares(...) embedded in a select on tasks, as the caller sees it
VisibleShares(uid, t) ==
  {s \in shares : s.task_id = t /\ ShareVisible(uid, s)}

\* ---------------------------------------------------------------- responses
Reply(op, caller, t, body, code, result) ==
  last' = [op |-> op, caller |-> caller, taskId |-> t, body |-> body,
           code |-> code, result |-> result]

\* The client has received the response.
Deliver ==
  /\ last # Idle
  /\ last' = Idle
  /\ UNCHANGED <<tasks, shares, nextId>>
  /\ UNCHANGED <<dependents, elsewhere>>

\* Mutation: the session is never checked.
Unauthorized_Never(caller) == FALSE

\* if (authError || !user): supabase.auth.getUser() finds no session
Unauthorized(caller) == caller = NoUser

\* Mutation: any row the caller can see passes the ownership test.
NotOwner_AnyVisible(task, uid) == task = NoRow

\* if (!task || task.user_id !== user.id), on the row the caller's select found
NotOwner(task, uid) == task = NoRow \/ task.user_id # uid

\* ---------------------------------------------------------------- POST /api/tasks
\* if (!title || title.trim() === "")
TitleMissing(body) == ~Truthy(body.title) \/ Trim(body.title.v) = <<>>

\* Mutation: the title is stored as sent.
TaskData_NoTrim(uid, body) ==
  [user_id |-> uid,
   title |-> body.title,
   description |-> TrimOrNull(body.description),
   status |-> AtomOr(body.status, "todo"),
   priority |-> AtomOr(body.priority, "medium"),
   due_date |-> AtomOrNull(body.due_date),
   category |-> AtomOrNull(body.category)]

\* Mutation: a missing priority becomes low.
TaskData_DefaultLow(uid, body) ==
  [user_id |-> uid,
   title |-> Val(Trim(body.title.v)),
   description |-> TrimOrNull(body.description),
   status |-> AtomOr(body.status, "todo"),
   priority |-> AtomOr(body.priority, "low"),
   due_date |-> AtomOrNull(body.due_date),
   category |-> AtomOrNull(body.category)]

\* const taskData: TaskInsert = {...}
TaskData(uid, body) ==
  [user_id |-> uid,
   title |-> Val(Trim(body.title.v)),
   description |-> TrimOrNull(body.description),
   status |-> AtomOr(body.status, "todo"),
   priority |-> AtomOr(body.priority, "medium"),
   due_date |-> AtomOrNull(body.due_date),
   category |-> AtomOrNull(body.category)]

\* The constraints of CREATE TABLE tasks on a row
TaskRowOk(row) ==
  /\ row.title # Null
  /\ CheckIn(row.status, StatusValues)
  /\ CheckIn(row.priority, PriorityValues)

\* POLICY "Users can create own tasks" ON tasks FOR INSERT
InsertTaskAllowed(uid, data) == uid = data.user_id

\* Mutation: a task created as completed is stamped with its completion time.
NewTaskRow_Stamped(data, now) ==
  [user_id |-> data.user_id, title |-> data.title,
   description |-> data.description, status |-> data.status,
   priority |-> data.priority, due_date |-> data.due_date,
   category |-> data.category,
   completed_at |-> IF data.status = Val("completed") THEN Val(now) ELSE Null,
   created_at |-> now]

\* Mutation: the insert stores no owner.
NewTaskRow_NoOwner(data, now) ==
  [user_id |-> NoUser, title |-> data.title,
   description |-> data.description, status |-> data.status,
   priority |-> data.priority, due_date |-> data.due_date,
   category |-> data.category, completed_at |-> Null, created_at |-> now]

\* The row the insert stores: the given columns, completed_at NULL,
\* created_at DEFAULT NOW() (a logical clock: the creation order)
NewTaskRow(data, now) ==
  [user_id |-> data.user_id, title |-> data.title,
   description |-> data.description, status |-> data.status,
   priority |-> data.priority, due_date |-> data.due_date,
   category |-> data.category, completed_at |-> Null, created_at |-> now]

\* ids: the task ids the model lets the backend hand out
CreateTask(C, B, ids) ==
  \E caller \in C, body \in B :
    /\ last = Idle
    /\ UNCHANGED <<dependents, elsewhere>>
    /\ nextId \in ids
    /\ IF Unauthorized(caller)
       THEN /\ Reply("create", caller, 0, body, 401, Null)
            /\ UNCHANGED <<tasks, shares, nextId>>
       ELSE IF TitleMissing(body)
       THEN /\ Reply("create", caller, 0, body, 400, Null)
            /\ UNCHANGED <<tasks, shares, nextId>>
       ELSE LET data == TaskData(caller, body)
                row == NewTaskRow(data, nextId)
            IN IF InsertTaskAllowed(caller, data) /\ TaskRowOk(row)
               THEN /\ tasks' = [tasks EXCEPT ![nextId] = row]
                    /\ nextId' = nextId + 1
                    /\ Reply("create", caller, nextId, body, 201, row)
                    /\ UNCHANGED shares
               ELSE /\ Reply("create", caller, 0, body, 500, Null)
                    /\ UNCHANGED <<tasks, shares, nextId>>

\* ---------------------------------------------------------------- GET /api/tasks/[id]
\* select(...).eq("id", taskId).single() as the caller
SelectTask(uid, t) == IF TaskVisible(uid, t) THEN tasks[t] ELSE NoRow

\* Mutation: only the owner passes the access check.
canAccessTask_OwnerOnly(taskId, userId) ==
  /\ SelectTask(userId, taskId) # NoRow
  /\ SelectTask(userId, taskId).user_id = userId

canAccessTask(taskId, userId) ==
  LET task == SelectTask(userId, taskId)
  IN IF task = NoRow THEN FALSE
     ELSE LET isOwner == task.user_id = userId
              isShared == \E share \in VisibleShares(userId, taskId) :
                            share.shared_with_user_id = userId
          IN isOwner \/ isShared

GetTask ==
  \E caller \in Callers, t \in TaskIds :
    /\ last = Idle
    /\ UNCHANGED <<dependents, elsewhere>>
    /\ UNCHANGED <<tasks, shares, nextId>>
    /\ IF Unauthorized(caller)
       THEN Reply("get", caller, t, Absent, 401, Null)
       ELSE IF ~canAccessTask(t, caller)
       THEN Reply("get", caller, t, Absent, 403, Null)
       ELSE IF SelectTask(caller, t) = NoRow
       THEN Reply("get", caller, t, Absent, 404, Null)
       ELSE Reply("get", caller, t, Absent, 200,
                  [task |-> SelectTask(caller, t),
                   task_shares |-> VisibleShares(caller, t)])

\* ---------------------------------------------------------------- PATCH /api/tasks/[id]
\* title.trim() on a null title throws a TypeError, which the handler's catch
\* turns into a 500.
UpdateThrows(body) == body.title = Null

\* const updateData: TaskUpdate = {}; if (x !== undefined) updateData.x = ...
\* (a column the update does not set is Absent)
UpdateData(body) ==
  [title |-> IF body.title.k = "val" THEN Val(Trim(body.title.v)) ELSE Absent,
   description |-> IF body.description = Absent THEN Absent
                   ELSE TrimOrNull(body.description),
   status |-> body.status,
   priority |-> body.priority,
   due_date |-> body.due_date,
   category |-> body.category]

\* if (updateData.title && updateData.title === "")
TitleRejected(updateData) ==
  Truthy(updateData.title) /\ updateData.title.v = <<>>

\* Mutation: the update replaces the row, a column it does not set becomes NULL.
ApplyUpdate_Replace(row, updateData) ==
  [f \in DOMAIN row |->
     IF f \in TaskFields
     THEN IF updateData[f] # Absent THEN updateData[f]
          ELSE IF f = "title" THEN row[f] ELSE Null
     ELSE row[f]]

\* UPDATE tasks SET <the columns of updateData> on one row
ApplyUpdate(row, updateData) ==
  [f \in DOMAIN row |->
     IF f \in TaskFields /\ updateData[f] # Absent THEN updateData[f] ELSE row[f]]

\* POLICY "Users can update own tasks" ON tasks FOR UPDATE
UpdateTaskAllowed(uid, row) == uid = row.user_id

\* POLICY "Users can delete own tasks" ON tasks FOR DELETE
DeleteTaskAllowed(uid, row) == uid = row.user_id

UpdateTask(C, B, T) ==
  \E caller \in C, t \in T, body \in B :
    /\ last = Idle
    /\ UNCHANGED <<dependents, elsewhere>>
    /\ UNCHANGED <<shares, nextId>>
    /\ IF Unauthorized(caller)
       THEN /\ Reply("update", caller, t, body, 401, Null)
            /\ UNCHANGED tasks
       ELSE LET task == SelectTask(caller, t) IN
       IF NotOwner(task, caller)
       THEN /\ Reply("update", caller, t, body, 403, Null)
            /\ UNCHANGED tasks
       ELSE IF UpdateThrows(body)
       THEN /\ Reply("update", caller, t, body, 500, Null)
            /\ UNCHANGED tasks
       ELSE LET updateData == UpdateData(body)
                row == ApplyUpdate(tasks[t], updateData)
            IN
       IF TitleRejected(updateData)
       THEN /\ Reply("update", caller, t, body, 400, Null)
            /\ UNCHANGED tasks
       ELSE IF \A f \in TaskFields : updateData[f] = Absent
       THEN \* an update that sets no column: the backend writes nothing and
            \* answers with the row or with an empty result, which .single()
            \* reports as an error
            /\ UNCHANGED tasks
            /\ \/ Reply("update", caller, t, body, 200, tasks[t])
               \/ Reply("update", caller, t, body, 500, Null)
       ELSE IF UpdateTaskAllowed(caller, tasks[t]) /\ TaskRowOk(row)
       THEN /\ tasks' = [tasks EXCEPT ![t] = row]
            /\ Reply("update", caller, t, body, 200, row)
       ELSE /\ Reply("update", caller, t, body, 500, Null)
            /\ UNCHANGED tasks

\* ---------------------------------------------------------------- DELETE /api/tasks/[id]
\* Mutation: task_shares.task_id has no ON DELETE CASCADE.
CascadeShares_Keep(t) == shares

\* ON DELETE CASCADE of task_shares.task_id
CascadeShares(t) == {s \in shares : s.task_id # t}

\* Mutation: deleting a task leaves its comments behind.
CascadeComments_Keep(t) == comments

\* ON DELETE CASCADE of comments.task_id and attachments.task_id
CascadeComments(t) == {c \in comments : c.task_id # t}
CascadeAttachments(t) == {a \in attachments : a.task_id # t}

DeleteTask ==
  \E caller \in Callers, t \in TaskIds :
    /\ last = Idle
    /\ UNCHANGED <<nextId, nextCommentId, nextAttachmentId, elsewhere>>
    /\ IF Unauthorized(caller)
       THEN /\ Reply("delete", caller, t, Absent, 401, Null)
            /\ UNCHANGED <<tasks, shares, comments, attachments>>
       ELSE LET task == SelectTask(caller, t) IN
       IF NotOwner(task, caller)
       THEN /\ Reply("delete", caller, t, Absent, 403, Null)
            /\ UNCHANGED <<tasks, shares, comments, attachments>>
       ELSE /\ IF DeleteTaskAllowed(caller, tasks[t])
               THEN /\ tasks' = [tasks EXCEPT ![t] = NoRow]
                    /\ shares' = CascadeShares(t)
                    /\ comments' = CascadeComments(t)
                    /\ attachments' = CascadeAttachments(t)
               ELSE UNCHANGED <<tasks, shares, comments, attachments>>
            /\ Reply("delete", caller, t, Absent, 200, Null)

\* ---------------------------------------------------------------- GET /api/tasks
\* .eq("user_id", user.id).order("created_at", { ascending: false }): the ids
\* are handed out in creation order, so the newest task has the largest id.
\* Mutation: the tasks are not filtered by owner, every task the caller can see
\* is listed.
RECURSIVE OwnedNewestFirst_Visible(_, _)
OwnedNewestFirst_Visible(uid, t) ==
  IF t = 0 THEN <<>>
  ELSE IF TaskVisible(uid, t)
       THEN <<[id |-> t, task |-> tasks[t],
               task_shares |-> VisibleShares(uid, t)]>>
            \o OwnedNewestFirst_Visible(uid, t - 1)
       ELSE OwnedNewestFirst_Visible(uid, t - 1)

RECURSIVE OwnedNewestFirst(_, _)
OwnedNewestFirst(uid, t) ==
  IF t = 0 THEN <<>>
  ELSE IF TaskVisible(uid, t) /\ tasks[t].user_id = uid
       THEN <<[id |-> t, task |-> tasks[t],
               task_shares |-> VisibleShares(uid, t)]>>
            \o OwnedNewestFirst(uid, t - 1)
       ELSE OwnedNewestFirst(uid, t - 1)

ListTasks ==
  \E caller \in Callers :
    /\ last = Idle
    /\ UNCHANGED <<dependents, elsewhere>>
    /\ UNCHANGED <<tasks, shares, nextId>>
    /\ IF Unauthorized(caller)
       THEN Reply("list", caller, 0, Absent, 401, Null)
       ELSE Reply("list", caller, 0, Absent, 200,
                  OwnedNewestFirst(caller, MaxTasks))

\* ---------------------------------------------------------------- POST /api/tasks/[id]/share
EmailInputs ==
  {Absent, Val(<<>>), Val(UnknownEmail)} \cup {Val(Email(u)) : u \in Users}

\* from("profiles").select(...).eq("email", userEmail).single()
\* (POLICY "Profiles are viewable by everyone"); NoUser when no row matches
ProfileByEmail(e) ==
  IF \E u \in Users : Email(u) = e
  THEN CHOOSE u \in Users : Email(u) = e
  ELSE NoUser

\* Mutation: sharing with oneself is not refused.
IsSelf_Never(targetUser, uid) == FALSE

\* if (targetUser.id === user.id)
IsSelf(targetUser, uid) == targetUser = uid

\* Mutation: the insert asks for the permission edit.
NewShareRow_Edit(t, target, by) ==
  [id |-> 1 + Cardinality({o \in shares :
                             /\ o.task_id = t
                             /\ o.shared_with_user_id = target}),
   task_id |-> t, shared_with_user_id |-> target, shared_by_user_id |-> by,
   permission |-> "edit"]

\* The row of an insert into task_shares: permission DEFAULT 'view', and
\* id DEFAULT uuid_generate_v4() as the row's rank among the rows of its pair
NewShareRow(t, target, by) ==
  [id |-> 1 + Cardinality({o \in shares :
                             /\ o.task_id = t
                             /\ o.shared_with_user_id = target}),
   task_id |-> t, shared_with_user_id |-> target, shared_by_user_id |-> by,
   permission |-> "view"]

\* POLICY "Task owners can share tasks" ON task_shares FOR INSERT
InsertShareAllowed(uid, s) ==
  /\ s.shared_by_user_id = uid
  /\ tasks[s.task_id] # NoRow
  /\ tasks[s.task_id].user_id = uid

\* Mutation: task_shares has no UNIQUE(task_id, shared_with_user_id).
ShareRowOk_NoUnique(s) == tasks[s.task_id] # NoRow

\* UNIQUE(task_id, shared_with_user_id) and the foreign key to tasks
ShareRowOk(s) ==
  /\ tasks[s.task_id] # NoRow
  /\ ~\E o \in shares : /\ o.task_id = s.task_id
                        /\ o.shared_with_user_id = s.shared_with_user_id

\* from("task_shares").select("id").eq(...).eq(...).single() as the caller
ExistingShare(uid, t, target) ==
  \E s \in shares : /\ ShareVisible(uid, s)
                    /\ s.task_id = t
                    /\ s.shared_with_user_id = target

ShareTask ==
  \E caller \in Callers, t \in TaskIds, userEmail \in EmailInputs :
    /\ last = Idle
    /\ UNCHANGED <<dependents, elsewhere>>
    /\ UNCHANGED <<tasks, nextId>>
    /\ IF Unauthorized(caller)
       THEN /\ Reply("share", caller, t, userEmail, 401, Null)
            /\ UNCHANGED shares
       ELSE IF ~Truthy(userEmail)
       THEN /\ Reply("share", caller, t, userEmail, 400, Null)
            /\ UNCHANGED shares
       ELSE LET task == SelectTask(caller, t) IN
       IF task = NoRow
       THEN /\ Reply("share", caller, t, userEmail, 404, Null)
            /\ UNCHANGED shares
       ELSE IF task.user_id # caller
       THEN /\ Reply("share", caller, t, userEmail, 403, Null)
            /\ UNCHANGED shares
       ELSE LET targetUser == ProfileByEmail(userEmail.v) IN
       IF targetUser = NoUser
       THEN /\ Reply("share", caller, t, userEmail, 404, Null)
            /\ UNCHANGED shares
       ELSE IF IsSelf(targetUser, caller)
       THEN /\ Reply("share", caller, t, userEmail, 400, Null)
            /\ UNCHANGED shares
       ELSE IF ExistingShare(caller, t, targetUser)
       THEN /\ Reply("share", caller, t, userEmail, 400, Null)
            /\ UNCHANGED shares
       ELSE LET newShare == NewShareRow(t, targetUser, caller) IN
       IF InsertShareAllowed(caller, newShare) /\ ShareRowOk(newShare)
       THEN /\ shares' = shares \cup {newShare}
            /\ Reply("share", caller, t, userEmail, 201, newShare)
       ELSE /\ Reply("share", caller, t, userEmail, 500, Null)
            /\ UNCHANGED shares

\* ---------------------------------------------------------------- DELETE /api/tasks/[id]/share
\* sharedUserId: missing, a user's id, or a well-formed id of no profile
UnknownUser == NumUsers + 1
SharedUserInputs == {Absent, Val(UnknownUser)} \cup {Val(u) : u \in Users}

\* Mutation: the policy lets the recipient, not the sharer, delete a share.
DeleteShareAllowed_Recipient(uid, s) == s.shared_with_user_id = uid

\* POLICY "Task owners can delete shares" ON task_shares FOR DELETE
DeleteShareAllowed(uid, s) == s.shared_by_user_id = uid

UnshareTask ==
  \E caller \in Callers, t \in TaskIds, sharedUserId \in SharedUserInputs :
    /\ last = Idle
    /\ UNCHANGED <<dependents, elsewhere>>
    /\ UNCHANGED <<tasks, nextId>>
    /\ IF Unauthorized(caller)
       THEN /\ Reply("unshare", caller, t, sharedUserId, 401, Null)
            /\ UNCHANGED shares
       ELSE IF ~TruthyAtom(sharedUserId)
       THEN /\ Reply("unshare", caller, t, sharedUserId, 400, Null)
            /\ UNCHANGED shares
       ELSE LET task == SelectTask(caller, t) IN
       IF task = NoRow
       THEN /\ Reply("unshare", caller, t, sharedUserId, 404, Null)
            /\ UNCHANGED shares
       ELSE IF task.user_id # caller
       THEN /\ Reply("unshare", caller, t, sharedUserId, 403, Null)
            /\ UNCHANGED shares
       ELSE /\ shares' = {s \in shares :
                            ~(/\ DeleteShareAllowed(caller, s)
                              /\ s.task_id = t
                              /\ s.shared_with_user_id = sharedUserId.v)}
            /\ Reply("unshare", caller, t, sharedUserId, 200, Null)

\* ---------------------------------------------------------------- GET /api/users/search
QueryInputs ==
  {Absent, Val(<<>>), Val(<<" ">>), Val(<<"u">>), Val(<<"U", "1">>),
   Val(<<"%">>), Val(<<"_", "2">>), Val(<<"z">>), Val(<<"u", " ">>)}

Lower(c) == IF c = "U" THEN "u" ELSE IF c = "X" THEN "x" ELSE c

\* s ILIKE p: % matches any run of characters, _ any one character
RECURSIVE ILike(_, _)
ILike(s, p) ==
  IF p = <<>> THEN s = <<>>
  ELSE IF Head(p) = "%"
       THEN ILike(s, Tail(p)) \/ (s # <<>> /\ ILike(Tail(s), p))
       ELSE /\ s # <<>>
            /\ (Head(p) = "_" \/ Lower(Head(s)) = Lower(Head(p)))
            /\ ILike(Tail(s), Tail(p))

\* Mutation: the caller is not excluded from the matches.
SearchMatches_Self(P, uid, query) ==
  {u \in P : ILike(Email(u), <<"%">> \o query \o <<"%">>)}

\* .ilike("email", `%${query}%`).neq("id", user.id) over the profiles P
SearchMatches(P, uid, query) ==
  {u \in P : u # uid /\ ILike(Email(u), <<"%">> \o query \o <<"%">>)}

\* .limit(n): any n of the rows when there are more
Limit(S, n) ==
  IF Cardinality(S) <= n THEN {S} ELSE {R \in SUBSET S : Cardinality(R) = n}

SearchUsers(P) ==
  \E caller \in P \cup {NoUser}, query \in QueryInputs :
    /\ last = Idle
    /\ UNCHANGED <<dependents, elsewhere>>
    /\ UNCHANGED <<tasks, shares, nextId>>
    /\ IF Unauthorized(caller)
       THEN Reply("search", caller, 0, query, 401, Null)
       ELSE IF ~Truthy(query) \/ Trim(query.v) = <<>>
       THEN Reply("search", caller, 0, query, 200, {})
       ELSE \E users \in Limit(SearchMatches(P, caller, query.v), SearchLimit) :
              Reply("search", caller, 0, query, 200, users)

\* ---------------------------------------------------------------- comments, attachments
\* POLICY "Users can comment on accessible tasks" ON comments FOR INSERT; the
\* tasks it selects from are the ones the caller's SELECT policy shows, and
\* they include every task the foreign key comments.task_id accepts.
InsertCommentAllowed(uid, c) ==
  c.user_id = uid /\ TaskVisible(uid, c.task_id)

\* POLICY "Users can upload attachments to accessible tasks" ON attachments
\* FOR INSERT
InsertAttachmentAllowed(uid, a) ==
  a.user_id = uid /\ TaskVisible(uid, a.task_id)

\* A row of comments or attachments: id DEFAULT gen_random_uuid() (a fresh id)
NewDependentRow(id, t, uid) == [id |-> id, task_id |-> t, user_id |-> uid]

\* A signed-in client inserts a comment on a task through the backend.
InsertComment ==
  \E caller \in Users, t \in TaskIds :
    /\ last = Idle
    /\ nextCommentId \in RowIds
    /\ UNCHANGED <<tasks, shares, nextId, attachments, nextAttachmentId, elsewhere>>
    /\ LET c == NewDependentRow(nextCommentId, t, caller)
       IN IF InsertCommentAllowed(caller, c)
          THEN /\ comments' = comments \cup {c}
               /\ nextCommentId' = nextCommentId + 1
               /\ Reply("comment", caller, t, Absent, 201, c)
          ELSE /\ Reply("comment", caller, t, Absent, 403, Null)
               /\ UNCHANGED <<comments, nextCommentId>>

\* A signed-in client records an attachment of a task through the backend.
InsertAttachment ==
  \E caller \in Users, t \in TaskIds :
    /\ last = Idle
    /\ nextAttachmentId \in RowIds
    /\ UNCHANGED <<tasks, shares, nextId, comments, nextCommentId, elsewhere>>
    /\ LET a == NewDependentRow(nextAttachmentId, t, caller)
       IN IF InsertAttachmentAllowed(caller, a)
          THEN /\ attachments' = attachments \cup {a}
               /\ nextAttachmentId' = nextAttachmentId + 1
               /\ Reply("attach", caller, t, Absent, 201, a)
          ELSE /\ Reply("attach", caller, t, Absent, 403, Null)
               /\ UNCHANGED <<attachments, nextAttachmentId>>

\* ---------------------------------------------------------------- middleware
\* request.nextUrl.pathname: "/" followed by pieces of text, the ones the
\* gatekeeper and its matcher tell apart ("/loginx" is <<"login", "x">>).
Pieces ==
  {"login", "signup", "tasks", "x", "/", "_next/static", "_next/image",
   "favicon.ico", ".png"}
Paths ==
  {p \in UNION {[1..n -> Pieces] : n \in 0..MaxPieces} :
     p = <<>> \/ p[1] # "/"}

RootPath == <<>>
LoginPath == <<"login">>
SignupPath == <<"signup">>

\* path.startsWith(route), both without their leading "/"
StartsWith(path, route) ==
  Len(path) >= Len(route) /\ SubSeq(path, 1, Len(route)) = route

\* Mutation: the matcher also leaves out the API routes.
Matcher_Pages(path) ==
  /\ ~\E p \in {<<"_next/static">>, <<"_next/image">>, <<"favicon.ico">>,
                <<"api/tasks">>, <<"api/tasks/">>} : StartsWith(path, p)
  /\ ~(path # <<>> /\ path[Len(path)] \in {".svg", ".png", ".jpg", ".jpeg",
                                           ".gif", ".webp"})

\* config.matcher: every path but the ones that begin with _next/static,
\* _next/image or favicon.ico or end in an image extension
StaticPrefixes == {<<"_next/static">>, <<"_next/image">>, <<"favicon.ico">>}
ImageSuffixes == {".svg", ".png", ".jpg", ".jpeg", ".gif", ".webp"}
Matcher(path) ==
  /\ ~\E p \in StaticPrefixes : StartsWith(path, p)
  /\ ~(path # <<>> /\ path[Len(path)] \in ImageSuffixes)

publicRoutes == {LoginPath, SignupPath}

\* NextResponse.redirect(redirectUrl) and NextResponse.next()
RedirectTo(pathname, from) ==
  [kind |-> "redirect", pathname |-> pathname, redirectedFrom |-> from]
PassThrough == [kind |-> "next"]

\* Mutation: no route is public.
middleware_NoPublic(user, path) ==
  IF user = NoUser
  THEN RedirectTo(LoginPath, Val(path))
  ELSE IF user # NoUser /\ (path = LoginPath \/ path = SignupPath)
  THEN RedirectTo(RootPath, Absent)
  ELSE PassThrough

middleware(user, path) ==
  LET isPublicRoute == \E route \in publicRoutes : StartsWith(path, route)
  IN IF user = NoUser /\ ~isPublicRoute
     THEN RedirectTo(LoginPath, Val(path))
     ELSE IF user # NoUser /\ (path = LoginPath \/ path = SignupPath)
     THEN RedirectTo(RootPath, Absent)
     ELSE PassThrough

\* Where the browser is after requesting a path: the page, or the target of
\* the gatekeeper's redirect (which the gatekeeper lets through).
Land(user, path) ==
  LET d == IF Matcher(path) THEN middleware(user, path) ELSE PassThrough
  IN IF d.kind = "redirect"
     THEN [session |-> user, path |-> d.pathname,
           redirectedFrom |-> d.redirectedFrom]
     ELSE [session |-> user, path |-> path, redirectedFrom |-> Absent]

\* The browser requests a path. The response code is the redirect's 307, or 0
\* when the gatekeeper gives no response of its own.
Navigate ==
  \E path \in Paths :
    /\ last = Idle
    /\ UNCHANGED <<tasks, shares, nextId, dependents, inflight, view>>
    /\ browser' = Land(browser.session, path)
    /\ IF Matcher(path)
       THEN LET d == middleware(browser.session, path)
            IN Reply("middleware", browser.session, 0, path,
                     IF d.kind = "redirect" THEN 307 ELSE 0, d)
       ELSE Reply("asset", browser.session, 0, path, 0, PassThrough)

\* LoginForm (rendered by the /login page): signInWithPassword signs a user
\* in or reports an error; on success router.push("/") and router.refresh().
handleLogin ==
  \E signedIn \in Callers :
    /\ last = Idle
    /\ browser.path = LoginPath
    /\ UNCHANGED <<tasks, shares, nextId, dependents, inflight, view>>
    /\ IF signedIn = NoUser
       THEN /\ UNCHANGED browser
            /\ Reply("login", signedIn, 0, browser.redirectedFrom, 400,
                     browser.path)
       ELSE /\ browser' = Land(signedIn, RootPath)
            /\ Reply("login", signedIn, 0, browser.redirectedFrom, 200,
                     Land(signedIn, RootPath).path)

\* Navbar (rendered by the home page): signOut, router.push("/login") and
\* router.refresh().
handleLogout ==
  /\ last = Idle
  /\ browser.session # NoUser
  /\ browser.path = RootPath
  /\ UNCHANGED <<tasks, shares, nextId, dependents, inflight, view>>
  /\ browser' = Land(NoUser, LoginPath)
  /\ Reply("logout", browser.session, 0, Absent, 200, Land(NoUser, LoginPath).path)

\* ---------------------------------------------------------------- redirects
\* The dashboard page: if (!user) redirect("/login"), else it renders
Home(user) ==
  IF user = NoUser THEN RedirectTo(LoginPath, Absent) ELSE PassThrough

\* What a request for a path gives: the gatekeeper's redirect, else the
\* page's own
Serve(user, path) ==
  IF Matcher(path) /\ middleware(user, path).kind = "redirect"
  THEN middleware(user, path)
  ELSE IF path = RootPath THEN Home(user) ELSE PassThrough

\* The browser follows redirects, n at most: how many it followed, where it
\* is, and whether that request was served without a redirect
RECURSIVE Follow(_, _, _)
Follow(user, path, n) ==
  IF Serve(user, path).kind # "redirect"
  THEN [hops |-> 0, path |-> path, served |-> TRUE]
  ELSE IF n = 0
  THEN [hops |-> 0, path |-> path, served |-> FALSE]
  ELSE LET rest == Follow(user, Serve(user, path).pathname, n - 1)
       IN [rest EXCEPT !.hops = rest.hops + 1]

\* A browser with or without a session requests a path and follows the
\* redirects.
Visit ==
  \E user \in Callers, path \in Paths :
    /\ last = Idle
    /\ UNCHANGED <<tasks, shares, nextId, dependents, elsewhere>>
    /\ Reply("visit", user, 0, path, 0, Follow(user, path, MaxHops))

\* ---------------------------------------------------------------- requests to /api
\* The paths of the task routes: /api/tasks, and /api/tasks/ followed by the
\* [id] segment, pieces of text without a "/"
ApiTasks == <<"api/tasks">>
ApiPaths ==
  {ApiTasks} \cup
  {<<"api/tasks/">> \o id :
     id \in UNION {[1..n -> {"1", "x", ".png"}] : n \in 1..(MaxPieces - 1)}}

\* The task the [id] segment names, 0 when it names none
TaskOf(id) ==
  IF \E t \in TaskIds : Decimal(t) = id
  THEN CHOOSE t \in TaskIds : Decimal(t) = id
  ELSE 0

\* The status of GET /api/tasks and GET /api/tasks/[id] for a caller
ApiStatus(user, path) ==
  IF Unauthorized(user) THEN 401
  ELSE IF path = ApiTasks THEN 200
  ELSE IF ~canAccessTask(TaskOf(Tail(path)), user) THEN 403
  ELSE IF SelectTask(user, TaskOf(Tail(path))) = NoRow THEN 404
  ELSE 200

\* The browser sends a GET to a task route: the gatekeeper answers it when the
\* matcher hands it the request and it redirects, the route handler otherwise.
ApiRequest ==
  \E path \in ApiPaths :
    /\ last = Idle
    /\ UNCHANGED <<tasks, shares, nextId, dependents, elsewhere>>
    /\ IF Matcher(path) /\ middleware(browser.session, path).kind = "redirect"
       THEN Reply("middleware", browser.session, 0, path, 307,
                  middleware(browser.session, path))
       ELSE Reply("handler", browser.session,
                  IF path = ApiTasks THEN 0 ELSE TaskOf(Tail(path)), path,
                  ApiStatus(browser.session, path), Null)

\* ---------------------------------------------------------------- TaskItem
\* The due dates of the tasks that are rendered, and new Date(s).getTime() as
\* a day number
DateStrings == {"2025-01-01", "2025-01-02"}
DateValue(s) ==
  CASE s = "2025-01-01" -> 1
    [] s = "2025-01-02" -> 2

\* new Date(): the days before, on and after the due dates
Nows == 0..3

\* Mutation: a task is overdue from the instant it is due.
isOverdue_OnTime(task, now) ==
  /\ TruthyAtom(task.due_date)
  /\ task.status # Val("completed")
  /\ DateValue(task.due_date.v) <= now

\* task.due_date && task.status !== "completed" &&
\* new Date(task.due_date) < new Date()
isOverdue(task, now) ==
  /\ TruthyAtom(task.due_date)
  /\ task.status # Val("completed")
  /\ DateValue(task.due_date.v) < now

\* The bodies of the tasks that are rendered: a title, a status or none, a
\* due date or none
OverdueBodies ==
  [title : {Val(<<"a">>)},
   description : {Absent},
   status : {Absent, Null, Val("in_progress"), Val("completed")},
   priority : {Absent},
   due_date : {Absent, Null} \cup {Val(d) : d \in DateStrings},
   category : {Absent},
   user_id : {Absent}]

\* TaskItem renders a task of the list at some time.
TaskItem ==
  \E t \in TaskIds, now \in Nows :
    /\ last = Idle
    /\ tasks[t] # NoRow
    /\ UNCHANGED <<tasks, shares, nextId, dependents, elsewhere>>
    /\ Reply("render", tasks[t].user_id, t, now, 0, isOverdue(tasks[t], now))

\* ---------------------------------------------------------------- specifications
\* All eight handlers, with the bodies of create and update kept to CoreBodies.
Next ==
  \/ ListTasks
  \/ CreateTask(Callers, CoreBodies, TaskIds)
  \/ GetTask
  \/ UpdateTask(Callers, CoreBodies, TaskIds)
  \/ DeleteTask
  \/ ShareTask
  \/ UnshareTask
  \/ SearchUsers(Users)
  \/ Deliver

Spec == Init /\ [][Next]_vars

\* The task handlers with every body of FieldBodies, for one signed-in user
\* and the first task id.
FieldCallers == {CHOOSE u \in Users : \A w \in Users : u <= w}
FieldTaskIds == {CHOOSE t \in TaskIds : \A w \in TaskIds : t <= w}

NextFields ==
  \/ CreateTask(FieldCallers, FieldBodies, FieldTaskIds)
  \/ GetTask
  \/ UpdateTask(FieldCallers, FieldBodies, FieldTaskIds)
  \/ DeleteTask
  \/ Deliver

SpecFields == Init /\ [][NextFields]_vars

\* The tables that reference tasks: the first task id is created by any user,
\* shared, commented on, given attachments and deleted.
CascadeBodies ==
  {b \in CoreBodies : b.title # Absent /\ b.status = Absent}

NextCascade ==
  \/ CreateTask(Users, CascadeBodies, FieldTaskIds)
  \/ ShareTask
  \/ InsertComment
  \/ InsertAttachment
  \/ DeleteTask
  \/ Deliver

SpecCascade == Init /\ [][NextCascade]_vars

\* The sharing handlers: tasks are created, listed, shared, unshared and
\* deleted.
NextShare ==
  \/ ListTasks
  \/ CreateTask(Users, CascadeBodies, TaskIds)
  \/ ShareTask
  \/ UnshareTask
  \/ DeleteTask
  \/ Deliver

SpecShare == Init /\ [][NextShare]_vars

\* The browser and the gatekeeper: pages are requested, users log in and out.
NextGate ==
  \/ Navigate
  \/ handleLogin
  \/ handleLogout
  \/ Deliver

SpecGate == Init /\ [][NextGate]_vars

\* ---------------------------------------------------------------- requests in flight
\* A request that is being served: where its handler stands, what it was
\* sent, what it has read, and its response once it has one
Request(pc, caller, t, body, target, checked, code) ==
  [pc |-> pc, caller |-> caller, taskId |-> t, body |-> body,
   target |-> target, checked |-> checked, code |-> code]

\* POST share up to the self test: the status it returns, or 0 to go on
ShareRefusal(caller, t, userEmail) ==
  IF Unauthorized(caller) THEN 401
  ELSE IF ~Truthy(userEmail) THEN 400
  ELSE IF SelectTask(caller, t) = NoRow THEN 404
  ELSE IF SelectTask(caller, t).user_id # caller THEN 403
  ELSE IF ProfileByEmail(userEmail.v) = NoUser THEN 404
  ELSE IF IsSelf(ProfileByEmail(userEmail.v), caller) THEN 400
  ELSE 0

\* POST share arrives and runs up to the existence test.
ShareBegin(r, C, E) ==
  \E caller \in C, t \in FieldTaskIds, userEmail \in E :
    /\ inflight[r] = NoRequest
    /\ LET code == ShareRefusal(caller, t, userEmail) IN
       inflight' = [inflight EXCEPT ![r] =
         IF code # 0
         THEN Request("done", caller, t, userEmail, NoUser, FALSE, code)
         ELSE Request("existing", caller, t, userEmail,
                      ProfileByEmail(userEmail.v), FALSE, 0)]
    /\ UNCHANGED <<tasks, shares, nextId, last, dependents, browser, view>>

\* POST share reads existingShare.
ShareExisting(r) ==
  /\ inflight[r].pc = "existing"
  /\ LET q == inflight[r] IN
     inflight' = [inflight EXCEPT ![r] =
       IF ExistingShare(q.caller, q.taskId, q.target)
       THEN [q EXCEPT !.pc = "done", !.code = 400]
       ELSE [q EXCEPT !.pc = "insert", !.checked = TRUE]]
  /\ UNCHANGED <<tasks, shares, nextId, last, dependents, browser, view>>

\* POST share inserts the row and answers.
ShareInsert(r) ==
  /\ inflight[r].pc = "insert"
  /\ LET q == inflight[r]
         newShare == NewShareRow(q.taskId, q.target, q.caller)
     IN IF InsertShareAllowed(q.caller, newShare) /\ ShareRowOk(newShare)
        THEN /\ shares' = shares \cup {newShare}
             /\ inflight' = [inflight EXCEPT ![r] =
                               [q EXCEPT !.pc = "done", !.code = 201]]
        ELSE /\ UNCHANGED shares
             /\ inflight' = [inflight EXCEPT ![r] =
                               [q EXCEPT !.pc = "done", !.code = 500]]
  /\ UNCHANGED <<tasks, nextId, last, dependents, browser, view>>

\* Share requests for the first task, served side by side
NextRace ==
  \/ CreateTask(FieldCallers, CascadeBodies, FieldTaskIds)
  \/ \E r \in Slots : ShareBegin(r, Users, EmailInputs)
  \/ \E r \in Slots : ShareExisting(r)
  \/ \E r \in Slots : ShareInsert(r)
  \/ Deliver

SpecRace == Init /\ [][NextRace]_vars

\* An update that is being served: what it was sent, the requests it found
\* in flight, its place among the updates that reached the backend, its response
Patch(pc, caller, t, body, met, order, code) ==
  [pc |-> pc, caller |-> caller, taskId |-> t, body |-> body,
   met |-> met, order |-> order, code |-> code]

\* The bodies of the concurrent updates: two titles, the statuses
ConflictBodies ==
  {b \in FieldBodies :
     /\ b.title \in {Absent, Val(<<"a">>), Val(<<"a", "a">>)}
     /\ \A f \in BodyFields \ {"title", "status"} : b[f] = Absent}

\* PATCH up to the title test: the status it returns, or 0 to go on
UpdateRefusal(caller, t, body) ==
  IF Unauthorized(caller) THEN 401
  ELSE IF NotOwner(SelectTask(caller, t), caller) THEN 403
  ELSE IF UpdateThrows(body) THEN 500
  ELSE IF TitleRejected(UpdateData(body)) THEN 400
  ELSE 0

\* PATCH arrives, reads the owner of the task and prepares updateData.
UpdateBegin(r, B) ==
  \E caller \in FieldCallers, t \in FieldTaskIds, body \in B :
    /\ inflight[r] = NoRequest
    /\ LET code == UpdateRefusal(caller, t, body)
           met == {q \in Slots : inflight[q].pc = "update"}
       IN inflight' = [inflight EXCEPT ![r] =
            IF code # 0
            THEN Patch("done", caller, t, body, met, 0, code)
            ELSE Patch("update", caller, t, body, met, 0, 0)]
    /\ UNCHANGED <<tasks, shares, nextId, last, dependents, browser, view>>

\* Mutation: the update replaces the row in the table.
WrittenRow_Replace(t, updateData) == ApplyUpdate_Replace(tasks[t], updateData)

\* The row the backend holds after update(updateData).eq("id", taskId)
WrittenRow(t, updateData) == ApplyUpdate(tasks[t], updateData)

\* PATCH sends the update to the backend and answers.
UpdateWrite(r) ==
  /\ inflight[r].pc = "update"
  /\ LET q == inflight[r]
         t == q.taskId
         updateData == UpdateData(q.body)
         row == WrittenRow(t, updateData)
         order == 1 + Cardinality({o \in Slots :
                                     /\ inflight[o].pc = "done"
                                     /\ "order" \in DOMAIN inflight[o]
                                     /\ inflight[o].order > 0})
         Answer(code) ==
           inflight' = [inflight EXCEPT ![r] =
             [q EXCEPT !.pc = "done", !.order = order, !.code = code]]
     IN IF \A f \in TaskFields : updateData[f] = Absent
        THEN /\ UNCHANGED tasks
             /\ (tasks[t] # NoRow /\ Answer(200)) \/ Answer(500)
        ELSE IF /\ tasks[t] # NoRow
                /\ UpdateTaskAllowed(q.caller, tasks[t])
                /\ TaskRowOk(row)
        THEN /\ tasks' = [tasks EXCEPT ![t] = row]
             /\ Answer(200)
        ELSE /\ UNCHANGED tasks
             /\ Answer(500)
  /\ UNCHANGED <<shares, nextId, last, dependents, browser, view>>

\* Updates of the first task by its owner, served side by side
NextConflict ==
  \/ CreateTask(FieldCallers, CascadeBodies, FieldTaskIds)
  \/ \E r \in Slots : UpdateBegin(r, ConflictBodies)
  \/ \E r \in Slots : UpdateWrite(r)
  \/ Deliver

SpecConflict == Init /\ [][NextConflict]_vars

\* ---------------------------------------------------------------- TaskList
\* The dashboard renders <TaskList userId={user.id} /> for the signed-in user.
TaskList ==
  \E u \in Users :
    /\ view.userId = NoUser
    /\ view' = [view EXCEPT !.userId = u]
    /\ UNCHANGED <<tasks, shares, nextId, last, dependents, browser, inflight>>

\* fetchTasks on mount: GET /api/tasks as the user, setTasks(data.tasks || [])
fetchTasks ==
  /\ view.userId # NoUser
  /\ view.loading
  /\ view' = [view EXCEPT !.tasks = OwnedNewestFirst(view.userId, MaxTasks),
                          !.loading = FALSE]
  /\ UNCHANGED <<tasks, shares, nextId, last, dependents, browser, inflight>>

\* Paths are requested with and without a session, redirects are followed.
NextVisit ==
  \/ Visit
  \/ Deliver

SpecVisit == Init /\ [][NextVisit]_vars

\* The task routes behind the gatekeeper: users log in and out, create tasks
\* and send GET requests to /api/tasks and /api/tasks/[id]
NextApi ==
  \/ Navigate
  \/ handleLogin
  \/ handleLogout
  \/ CreateTask(Users, CascadeBodies, FieldTaskIds)
  \/ ApiRequest
  \/ Deliver

SpecApi == Init /\ [][NextApi]_vars

\* A request of the task list that is under way: the tasks array its handler
\* closed over, and the response the server has given
Call(op, t, snapshot, code, item) ==
  [pc |-> "sent", op |-> op, taskId |-> t, snapshot |-> snapshot,
   code |-> code, item |-> item]

\* A task as a response's data.task carries it
Item(t, row) == [id |-> t, task |-> row, task_shares |-> {}]

\* A request of the kind op is under way: the form's submit button and the
\* delete dialog's button are disabled meanwhile
Busy(op) == \E q \in Slots : inflight[q].pc = "sent" /\ inflight[q].op = op

\* handleCreateTask up to the response: POST /api/tasks as the user
handleCreateTask(r) ==
  \E body \in CascadeBodies :
    /\ view.userId # NoUser /\ ~view.loading
    /\ inflight[r] = NoRequest
    /\ ~Busy("create")
    /\ nextId \in TaskIds
    /\ LET data == TaskData(view.userId, body)
           row == NewTaskRow(data, nextId)
       IN IF InsertTaskAllowed(view.userId, data) /\ TaskRowOk(row)
          THEN /\ tasks' = [tasks EXCEPT ![nextId] = row]
               /\ nextId' = nextId + 1
               /\ inflight' = [inflight EXCEPT ![r] =
                    Call("create", nextId, view.tasks, 201, Item(nextId, row))]
          ELSE /\ UNCHANGED <<tasks, nextId>>
               /\ inflight' = [inflight EXCEPT ![r] =
                    Call("create", 0, view.tasks, 500, Null)]
    /\ UNCHANGED <<shares, last, dependents, browser, view>>

\* handleToggleStatus up to the response: PATCH /api/tasks/[id] as the user,
\* called as onToggleStatus(task.id, task.status === "completed" ? "todo" :
\* "completed") with the body {status: newStatus}
handleToggleStatus(r) ==
  \E i \in 1..Len(view.tasks) :
    /\ view.userId # NoUser /\ ~view.loading
    /\ inflight[r] = NoRequest
    /\ LET t == view.tasks[i].id
           newStatus == IF view.tasks[i].task.status = Val("completed")
                        THEN "todo" ELSE "completed"
           body == [f \in BodyFields |->
                      IF f = "status" THEN Val(newStatus) ELSE Absent]
           code == UpdateRefusal(view.userId, t, body)
           row == WrittenRow(t, UpdateData(body))
       IN IF code # 0
          THEN /\ UNCHANGED tasks
               /\ inflight' = [inflight EXCEPT ![r] =
                    Call("toggle", t, view.tasks, code, Null)]
          ELSE IF UpdateTaskAllowed(view.userId, tasks[t]) /\ TaskRowOk(row)
          THEN /\ tasks' = [tasks EXCEPT ![t] = row]
               /\ inflight' = [inflight EXCEPT ![r] =
                    Call("toggle", t, view.tasks, 200, Item(t, row))]
          ELSE /\ UNCHANGED tasks
               /\ inflight' = [inflight EXCEPT ![r] =
                    Call("toggle", t, view.tasks, 500, Null)]
    /\ UNCHANGED <<shares, nextId, last, dependents, browser, view>>

\* confirmDeleteTask up to the response: DELETE /api/tasks/[id] as the user
confirmDeleteTask(r) ==
  \E i \in 1..Len(view.tasks) :
    /\ view.userId # NoUser /\ ~view.loading
    /\ inflight[r] = NoRequest
    /\ ~Busy("delete")
    /\ LET t == view.tasks[i].id IN
       IF NotOwner(SelectTask(view.userId, t), view.userId)
       THEN /\ UNCHANGED <<tasks, shares, comments, attachments>>
            /\ inflight' = [inflight EXCEPT ![r] =
                 Call("delete", t, view.tasks, 403, Null)]
       ELSE /\ IF DeleteTaskAllowed(view.userId, tasks[t])
               THEN /\ tasks' = [tasks EXCEPT ![t] = NoRow]
                    /\ shares' = CascadeShares(t)
                    /\ comments' = CascadeComments(t)
                    /\ attachments' = CascadeAttachments(t)
               ELSE UNCHANGED <<tasks, shares, comments, attachments>>
            /\ inflight' = [inflight EXCEPT ![r] =
                 Call("delete", t, view.tasks, 200, Null)]
    /\ UNCHANGED <<nextId, nextCommentId, nextAttachmentId, last, browser, view>>

\* The tasks array a handler sets when its response is ok, from the array it
\* closed over: setTasks([data.task, ...tasks]), setTasks(tasks.map(...)),
\* setTasks(tasks.filter(...))
Spliced(c) ==
  IF c.op = "create" THEN <<c.item>> \o c.snapshot
  ELSE IF c.op = "toggle"
  THEN [i \in 1..Len(c.snapshot) |->
          IF c.snapshot[i].id = c.taskId THEN c.item ELSE c.snapshot[i]]
  ELSE SelectSeq(c.snapshot, LAMBDA x : x.id # c.taskId)

\* The response of a request of the task list arrives.
Respond(r) ==
  /\ inflight[r].pc = "sent"
  /\ inflight' = [inflight EXCEPT ![r] = NoRequest]
  /\ view' = IF inflight[r].code \in {200, 201}
             THEN [view EXCEPT !.tasks = Spliced(inflight[r])]
             ELSE view
  /\ UNCHANGED <<tasks, shares, nextId, last, dependents, browser>>

\* One user's task list, the only client: its requests overlap
NextClient ==
  \/ TaskList
  \/ fetchTasks
  \/ \E r \in Slots : handleCreateTask(r)
  \/ \E r \in Slots : handleToggleStatus(r)
  \/ \E r \in Slots : confirmDeleteTask(r)
  \/ \E r \in Slots : Respond(r)

SpecClient == Init /\ [][NextClient]_vars

\* ---------------------------------------------------------------- ShareModal
\* What the user types into the search field
SearchTexts == {<<>>, <<" ">>, <<"u">>, <<"z">>}

\* onChange: setSearchQuery(e.target.value); the effect's cleanup clears the
\* pending timer and the effect sets a new one
setSearchQuery ==
  \E q \in SearchTexts :
    /\ view.userId # NoUser
    /\ q # view.searchQuery
    /\ view' = [view EXCEPT !.searchQuery = q, !.timer = TRUE]
    /\ UNCHANGED <<tasks, shares, nextId, last, dependents, browser, inflight>>

\* The debounce timer fires with a blank query: setSearchResults([])
ClearResults ==
  /\ view.timer
  /\ Trim(view.searchQuery) = <<>>
  /\ view' = [view EXCEPT !.timer = FALSE, !.searchResults = {}]
  /\ UNCHANGED <<tasks, shares, nextId, last, dependents, browser, inflight>>

\* The debounce timer fires with a query: searchUsers up to the response,
\* GET /api/users/search?q=... as the user
searchUsers(r) ==
  /\ view.timer
  /\ Trim(view.searchQuery) # <<>>
  /\ inflight[r] = NoRequest
  /\ \E users \in Limit(SearchMatches(Users, view.userId, view.searchQuery),
                        SearchLimit) :
       inflight' = [inflight EXCEPT ![r] =
         [pc |-> "sent", op |-> "search", query |-> view.searchQuery,
          code |-> 200, users |-> users]]
  /\ view' = [view EXCEPT !.timer = FALSE]
  /\ UNCHANGED <<tasks, shares, nextId, last, dependents, browser>>

\* The response of a search arrives: setSearchResults(data.users || [])
SearchResponse(r) ==
  /\ inflight[r].pc = "sent"
  /\ inflight[r].op = "search"
  /\ inflight' = [inflight EXCEPT ![r] = NoRequest]
  /\ view' = [view EXCEPT !.searchResults = inflight[r].users]
  /\ UNCHANGED <<tasks, shares, nextId, last, dependents, browser>>

\* The share dialog's search field: the user types, the timer fires, the
\* responses arrive
NextModal ==
  \/ TaskList
  \/ setSearchQuery
  \/ ClearResults
  \/ \E r \in Slots : searchUsers(r)
  \/ \E r \in Slots : SearchResponse(r)

SpecModal == Init /\ [][NextModal]_vars

\* The status of the first task: it is created and updated with or without a
\* status by any user, and its owner toggles it in the task list
NextToggle ==
  \/ CreateTask(Users, CoreBodies, FieldTaskIds)
  \/ UpdateTask(Users, CoreBodies, FieldTaskIds)
  \/ TaskList
  \/ fetchTasks
  \/ \E r \in Slots : handleToggleStatus(r)
  \/ \E r \in Slots : Respond(r)
  \/ Deliver

SpecToggle == Init /\ [][NextToggle]_vars

\* Tasks are created and shared, and a user opens the dashboard
NextList ==
  \/ CreateTask(Users, CascadeBodies, TaskIds)
  \/ ShareTask
  \/ TaskList
  \/ fetchTasks
  \/ Deliver

SpecList == Init /\ [][NextList]_vars

\* The owner of a task: the first task id is created and updated with bodies
\* that name an owner, shared, unshared and deleted by any user.
OwnerBodies ==
  {b \in FieldBodies :
     /\ b.title \in {Absent, Val(<<"a">>)}
     /\ b.status \in {Absent, Val("completed")}
     /\ \A f \in BodyFields \ {"title", "status", "user_id"} : b[f] = Absent}

NextOwner ==
  \/ CreateTask(Users, OwnerBodies, FieldTaskIds)
  \/ UpdateTask(Users, OwnerBodies, FieldTaskIds)
  \/ DeleteTask
  \/ ShareTask
  \/ UnshareTask
  \/ Deliver

SpecOwner == Init /\ [][NextOwner]_vars

\* A delete among the owner's updates and share requests that are served step
\* by step: updates that set the status or nothing, shares with a user
GoneBodies ==
  {b \in ConflictBodies : b.title = Absent /\ b.status \in {Absent, Val("completed")}}

NextGone ==
  \/ CreateTask(FieldCallers, CascadeBodies, FieldTaskIds)
  \/ \E r \in Slots : UpdateBegin(r, GoneBodies)
  \/ \E r \in Slots : UpdateWrite(r)
  \/ \E r \in Slots : ShareBegin(r, FieldCallers,
                                 {Val(Email(u)) : u \in Users})
  \/ \E r \in Slots : ShareExisting(r)
  \/ \E r \in Slots : ShareInsert(r)
  \/ DeleteTask
  \/ Deliver

SpecGone == Init /\ [][NextGone]_vars

\* The task list's items: the first task id is created, updated and rendered.
NextOverdue ==
  \/ CreateTask(FieldCallers, OverdueBodies, FieldTaskIds)
  \/ UpdateTask(FieldCallers, OverdueBodies, FieldTaskIds)
  \/ TaskItem
  \/ Deliver

SpecOverdue == Init /\ [][NextOverdue]_vars

\* The user search over enough profiles for .limit() to cut the result
SearchProfiles == 1..(SearchLimit + 2)

NextSearch ==
  \/ SearchUsers(SearchProfiles)
  \/ Deliver

SpecSearch == Init /\ [][NextSearch]_vars

\* ---------------------------------------------------------------- properties
\* The share rows of task t, whoever looks
SharesOf(t) == {s \in shares : s.task_id = t}

\* C1: a PATCH or DELETE on an existing task by a signed-in caller who is not
\* its owner (a share recipient included) is answered 403 and leaves the row
\* as it was; a task row changes or disappears only in a PATCH or DELETE of
\* its owner.
C1_OnlyOwnerWrites ==
  [][\A t \in TaskIds :
       tasks[t] # NoRow =>
         /\ (/\ last'.op \in {"update", "delete"}
             /\ last'.taskId = t
             /\ last'.caller \in Users
             /\ last'.caller # tasks[t].user_id)
            => (last'.code = 403 /\ tasks'[t] = tasks[t])
         /\ tasks'[t] # tasks[t]
            => (/\ last'.op \in {"update", "delete"}
                /\ last'.taskId = t
                /\ last'.caller = tasks[t].user_id)]_vars

\* A share recipient's PATCH that names a new title has been refused.
C1_Witness ==
  /\ last.op = "update"
  /\ last.code = 403
  /\ last.body.title # Absent
  /\ \E s \in SharesOf(last.taskId) : s.shared_with_user_id = last.caller

\* C2: fetch-one on an existing task answers 200 with the task exactly when the
\* signed-in caller owns it or a share row for (task, caller) exists, and 403
\* otherwise.
C2_ReadAccess ==
  (last.op = "get" /\ last.caller \in Users /\ tasks[last.taskId] # NoRow) =>
    IF \/ tasks[last.taskId].user_id = last.caller
       \/ \E s \in SharesOf(last.taskId) : s.shared_with_user_id = last.caller
    THEN last.code = 200 /\ last.result.task = tasks[last.taskId]
    ELSE last.code = 403

\* A share recipient has fetched another user's task.
C2_Witness ==
  /\ last.op = "get"
  /\ last.code = 200
  /\ tasks[last.taskId].user_id # last.caller
  /\ \E s \in SharesOf(last.taskId) : s.shared_with_user_id = last.caller

\* C3: a fetch-one, update or delete by a signed-in caller on a task id whose
\* row is absent (never created or deleted) is answered 404.
C3_AbsentIsNotFound ==
  [][(/\ last'.op \in {"get", "update", "delete"}
      /\ last'.caller \in Users
      /\ tasks[last'.taskId] = NoRow)
     => last'.code = 404]_vars

\* C4: every handler answers a request without a session with 401, whatever
\* the body, query or task id, and leaves the tables as they were.
C4_SessionFirst ==
  [][(last'.op # "none" /\ last'.caller = NoUser)
     => (last'.code = 401 /\ tasks' = tasks /\ shares' = shares)]_vars

\* A share request without a session and without an email got 401, not 400.
C4_Witness ==
  /\ last.op = "share"
  /\ last.caller = NoUser
  /\ last.body = Absent
  /\ last.code = 401

\* C10: a share-create by the owner whose email resolves to the owner, or to a
\* user the task is already shared with, is answered 400 and adds no share
\* row; no share row ever targets the owner of its task.
C10_NoSelfNoDuplicateShare ==
  [][/\ (/\ last'.op = "share"
         /\ tasks[last'.taskId] # NoRow
         /\ last'.caller = tasks[last'.taskId].user_id
         /\ last'.body.k = "val"
         /\ \/ last'.body.v = Email(last'.caller)
            \/ \E s \in SharesOf(last'.taskId) :
                 last'.body.v = Email(s.shared_with_user_id))
        => (last'.code = 400 /\ shares' = shares)
     /\ \A s \in shares' :
          /\ tasks'[s.task_id] # NoRow
          /\ s.shared_with_user_id # tasks'[s.task_id].user_id]_vars

\* The owner's second share of a task with the same user has been refused.
C10_Witness ==
  /\ last.op = "share"
  /\ last.code = 400
  /\ tasks[last.taskId] # NoRow
  /\ last.caller = tasks[last.taskId].user_id
  /\ last.body.k = "val"
  /\ \E s \in SharesOf(last.taskId) : last.body.v = Email(s.shared_with_user_id)

\* A title that is missing, null, empty or only spaces
Blank(x) == x.k # "val" \/ \A i \in 1..Len(x.v) : x.v[i] = " "

\* A status or priority the create request may carry without the insert
\* failing: none, or one of the values of the column's CHECK constraint
Storable(x, allowed) == x \in {Absent, Null} \/ x.v \in allowed

\* The step has created exactly one task row, owned by the caller, with the
\* trimmed title, and the response carries it.
CreatedOne ==
  \E t \in TaskIds :
    /\ tasks[t] = NoRow
    /\ tasks'[t] # NoRow
    /\ tasks'[t].user_id = last'.caller
    /\ tasks'[t].title = Val(Trim(last'.body.title.v))
    /\ last'.result = tasks'[t]
    /\ \A o \in TaskIds \ {t} : tasks'[o] = tasks[o]

StoredChoice(x, allowed, default) ==
  IF x.k = "val" /\ x.v \in allowed THEN x ELSE Val(default)

OwnerUpdate ==
  /\ last'.op = "update"
  /\ tasks[last'.taskId] # NoRow
  /\ last'.caller = tasks[last'.taskId].user_id

\* What a successful update stores for the value x sent for field f
StoredForm(f, x) ==
  IF f = "title" THEN Val(Trim(x.v))
  ELSE IF f = "description" THEN TrimOrNull(x)
  ELSE x

C8_EmptyTitleRejected ==
  [][(OwnerUpdate /\ last'.body.title.k = "val" /\ Blank(last'.body.title))
     => (last'.code = 400 /\ tasks' = tasks)]_vars

\* C9: every task's status is one of todo/in_progress/completed and its
\* priority one of low/medium/high/urgent.
C9_StatusPriorityDomain ==
  \A t \in TaskIds :
    tasks[t] # NoRow =>
      /\ tasks[t].status.k = "val"
      /\ tasks[t].status.v \in StatusValues
      /\ tasks[t].priority.k = "val"
      /\ tasks[t].priority.v \in PriorityValues

\* The step answers a share-create or share-delete that names its target.
NamesTarget ==
  \/ last'.op = "share" /\ Truthy(last'.body)
  \/ last'.op = "unshare" /\ TruthyAtom(last'.body)

\* C11: a share-create or share-delete on an existing task by a signed-in
\* caller who is not its owner (a share recipient included) is answered 403 and
\* leaves the share rows as they were; the share rows of a task change only in
\* a request of its owner.
C11_ShareOwnerOnly ==
  [][/\ (/\ NamesTarget
         /\ last'.caller \in Users
         /\ tasks[last'.taskId] # NoRow
         /\ last'.caller # tasks[last'.taskId].user_id)
        => (last'.code = 403 /\ shares' = shares)
     /\ \A t \in TaskIds :
          {s \in shares' : s.task_id = t} # SharesOf(t)
          => last'.caller = tasks[t].user_id]_vars

\* C12: every share, comment and attachment row references an existing task;
\* after a delete that answered 200 the task is gone and no share, comment or
\* attachment row references it.
C12_NoDanglingRows ==
  /\ \A s \in shares : tasks[s.task_id] # NoRow
  /\ \A c \in comments : tasks[c.task_id] # NoRow
  /\ \A a \in attachments : tasks[a.task_id] # NoRow
  /\ (last.op = "delete" /\ last.code = 200) =>
       /\ tasks[last.taskId] = NoRow
       /\ SharesOf(last.taskId) = {}
       /\ \A c \in comments : c.task_id # last.taskId
       /\ \A a \in attachments : a.task_id # last.taskId

\* A task that had been commented on and given an attachment has been deleted:
\* the first comment and the first attachment are gone.
C12_Witness ==
  /\ last.op = "delete"
  /\ last.code = 200
  /\ nextCommentId > 1 /\ ~\E c \in comments : c.id = 1
  /\ nextAttachmentId > 1 /\ ~\E a \in attachments : a.id = 1

\* C13: a share-delete by the owner that names a target answers 200 and
\* leaves exactly the share rows that do not match (task, target): the
\* matching row is removed, and when there is none nothing changes, so a second
\* application finds no matching row, changes nothing and answers 200 again.
C13_UnshareIdempotent ==
  [][(/\ last'.op = "unshare"
      /\ TruthyAtom(last'.body)
      /\ tasks[last'.taskId] # NoRow
      /\ last'.caller = tasks[last'.taskId].user_id)
     => /\ last'.code = 200
        /\ shares' = {s \in shares : ~(/\ s.task_id = last'.taskId
                                       /\ s.shared_with_user_id = last'.body.v)}
        /\ tasks' = tasks]_vars

\* The owner's share-delete has answered 200 and no share of the task with the
\* named user, who is a user other than the owner, is left.
C13_Witness ==
  /\ last.op = "unshare"
  /\ last.code = 200
  /\ last.body.k = "val"
  /\ last.body.v \in Users \ {last.caller}
  /\ tasks[last.taskId] # NoRow
  /\ ~\E s \in SharesOf(last.taskId) : s.shared_with_user_id = last.body.v

\* The paths of the auth pages
AuthPages == {LoginPath, SignupPath}

\* A path below an auth page, such as /login/x
BelowAuthPage(path) == \E a \in AuthPages : StartsWith(path, a \o <<"/">>)

\* C14: a request the matcher hands to the gatekeeper (its path not below an
\* auth page) is redirected to /login with the requested path in
\* redirectedFrom when there is no session and the path is not /login or
\* /signup, is redirected to / when there is a session and the path is /login
\* or /signup, and passes through otherwise.
C14_GatekeeperDecision ==
  (last.op = "middleware" /\ ~BelowAuthPage(last.body)) =>
    IF last.caller = NoUser /\ last.body \notin AuthPages
    THEN last.result = RedirectTo(LoginPath, Val(last.body))
    ELSE IF last.caller # NoUser /\ last.body \in AuthPages
    THEN last.result = RedirectTo(RootPath, Absent)
    ELSE last.result = PassThrough

\* C20: when the login page was reached by the gatekeeper's redirect from a
\* path P and the login succeeds, the browser is taken to P.
C20_BackToOriginalPage ==
  [][(/\ last'.op = "login"
      /\ last'.code = 200
      /\ browser.path = LoginPath
      /\ browser.redirectedFrom.k = "val")
     => browser'.path = browser.redirectedFrom.v]_vars

\* C15: a user search by a signed-in caller answers 200; with a missing,
\* empty or blank query the list is empty (although the pattern of an empty
\* query would match every profile); with any other query the list never
\* holds the caller and never more than 10 profiles.
C15_SearchExcludesCaller ==
  (last.op = "search" /\ last.caller # NoUser) =>
    /\ last.code = 200
    /\ (Blank(last.body) => last.result = {})
    /\ last.caller \notin last.result
    /\ Cardinality(last.result) <= 10

\* A search that every other profile matches has answered with 10 of them,
\* fewer than the matches.
C15_Witness ==
  /\ last.op = "search"
  /\ last.code = 200
  /\ Cardinality(last.result) = 10
  /\ Cardinality(SearchProfiles \ {last.caller}) > 10
  /\ last.body = Val(<<"u">>)

\* C16: the list of a signed-in caller is answered 200 and holds exactly the
\* tasks the caller owns (never one that is only shared with the caller),
\* each with its row and its share rows, in decreasing order of creation.
C16_ListOwnedNewestFirst ==
  (last.op = "list" /\ last.caller \in Users) =>
    /\ last.code = 200
    /\ LET r == last.result
       IN /\ {r[i].id : i \in 1..Len(r)} =
               {t \in TaskIds : tasks[t] # NoRow /\ tasks[t].user_id = last.caller}
          /\ \A i \in 1..Len(r) :
               /\ r[i].task = tasks[r[i].id]
               /\ r[i].task_shares = SharesOf(r[i].id)
          /\ \A i, j \in 1..Len(r) :
               i < j => r[i].task.created_at > r[j].task.created_at

\* The caller's list holds the one task the caller owns, with its share row,
\* and not the task that another user shares with the caller.
C16_Witness ==
  /\ last.op = "list"
  /\ last.code = 200
  /\ Len(last.result) = 1
  /\ last.result[1].task_shares # {}
  /\ \E t \in TaskIds :
       /\ tasks[t] # NoRow
       /\ tasks[t].user_id # last.caller
       /\ \E s \in SharesOf(t) : s.shared_with_user_id = last.caller

\* C17: a rendered task is classified as overdue exactly when it has a due
\* date, the due date is before the current time and its status is not
\* completed; a completed task and a task without a due date never are.
C17_OverdueClassification ==
  last.op = "render" =>
    LET task == tasks[last.taskId]
        due == task.due_date
        now == last.body
    IN /\ last.result = TRUE <=>
            /\ due # Null
            /\ \E d \in DateStrings : due = Val(d) /\ DateValue(d) < now
            /\ task.status # Val("completed")
       /\ task.status = Val("completed") => last.result = FALSE
       /\ due = Null => last.result = FALSE

\* A task that is not completed has been rendered, the day after it was due,
\* as overdue.
C17_Witness ==
  /\ last.op = "render"
  /\ last.result = TRUE
  /\ tasks[last.taskId].status = Val("in_progress")
  /\ tasks[last.taskId].due_date = Val("2025-01-01")
  /\ last.body = 2

\* The share requests that have answered after passing the existence test for
\* the same task and user as request r
Rivals(r) ==
  {q \in Slots : /\ inflight[q].pc = "done"
                 /\ inflight[q].checked
                 /\ inflight[q].taskId = inflight[r].taskId
                 /\ inflight[q].target = inflight[r].target}

\* C18: of the owner's share requests for the same task and user that all
\* passed the existence test, exactly one answers 201 and every other one
\* answers with an error, and no (task, user) pair ever has two share rows.
C18_DuplicateShareRace ==
  /\ \A s1 \in shares, s2 \in shares :
       (/\ s1.task_id = s2.task_id
        /\ s1.shared_with_user_id = s2.shared_with_user_id) => s1 = s2
  /\ \A r \in Slots :
       (inflight[r].pc = "done" /\ inflight[r].checked) =>
         /\ Cardinality({q \in Rivals(r) : inflight[q].code = 201}) = 1
         /\ \A q \in Rivals(r) : inflight[q].code \in {201, 500}

\* Two requests for the same task and user both passed the existence test;
\* one has answered 201 and the other 500.
C18_Witness ==
  \E r \in Slots, q \in Slots :
    /\ r # q
    /\ inflight[r].pc = "done"
    /\ q \in Rivals(r)
    /\ r \in Rivals(r)
    /\ inflight[r].code = 201
    /\ inflight[q].code = 500
    /\ Cardinality(shares) = 1

\* The updates of task t that answered 200 and set column f
Writers(t, f) ==
  {q \in Slots : /\ inflight[q].pc = "done"
                 /\ inflight[q].code = 200
                 /\ inflight[q].taskId = t
                 /\ UpdateData(inflight[q].body)[f] # Absent}

\* The one of a set of answered updates that reached the backend last
LastOf(W) == CHOOSE w \in W : \A q \in W : inflight[q].order <= inflight[w].order

\* C19: updates of one task served side by side are not reconciled: an
\* update by the owner that reached the backend and sets a column to values
\* the table accepts answers 200 whatever the others do, and every column
\* holds the value of the update that reached the backend last among those
\* that set it.
C19_LastWriteWins ==
  /\ \A r \in Slots :
       (/\ inflight[r].pc = "done"
        /\ inflight[r].order > 0
        /\ Present(inflight[r].body) # {}
        /\ inflight[r].body.status # Val("bogus")) => inflight[r].code = 200
  /\ \A t \in TaskIds, f \in TaskFields :
       Writers(t, f) # {} =>
         tasks[t][f] = UpdateData(inflight[LastOf(Writers(t, f))].body)[f]

\* Two updates were in flight together; the first to reach the backend set the
\* title and the status, the second only the status: the title of the first
\* and the status of the second persist, and both answered 200.
C19_Witness ==
  \E r \in Slots, q \in Slots :
    /\ inflight[r].pc = "done" /\ inflight[q].pc = "done"
    /\ inflight[r].code = 200 /\ inflight[q].code = 200
    /\ r \in inflight[q].met
    /\ inflight[r].order = 1 /\ inflight[q].order = 2
    /\ inflight[r].body.title = Val(<<"a", "a">>)
    /\ inflight[r].body.status = Val("completed")
    /\ inflight[q].body.title = Absent
    /\ inflight[q].body.status = Null
    /\ tasks[inflight[r].taskId].title = Val(<<"a", "a">>)
    /\ tasks[inflight[r].taskId].status = Null

\* q occurs in s as a run of characters, letters compared without case
ContainsNoCase(s, q) ==
  \E i \in 0..(Len(s) - Len(q)) :
    \A j \in 1..Len(q) : Lower(s[i + j]) = Lower(q[j])

\* C21: with a query that is not blank, the email of every profile a user
\* search returns contains the query, letters compared without case, whatever
\* characters the query holds.
C21_SearchSubstring ==
  (last.op = "search" /\ last.code = 200 /\ ~Blank(last.body)) =>
    \A u \in last.result : ContainsNoCase(Email(u), last.body.v)

\* C22: when the task list has loaded, every task of another owner that is
\* shared with the user is in the list, as an item that is not the user's own.
C22_SharedWithMeListed ==
  [][(view.loading /\ ~view'.loading) =>
       \A t \in TaskIds :
         (/\ tasks[t] # NoRow
          /\ tasks[t].user_id # view.userId
          /\ \E s \in shares : /\ s.task_id = t
                               /\ s.shared_with_user_id = view.userId) =>
           \E i \in 1..Len(view'.tasks) :
             /\ view'.tasks[i].id = t
             /\ view'.tasks[i].task.user_id # view'.userId]_vars

\* C23: a task row appears only in a create, under the next id and with the
\* caller as its owner, whatever owner the body names; ids are never handed
\* out again; and no request changes the owner of a task that exists.
C23_OwnerNeverChanges ==
  [][/\ nextId' >= nextId
     /\ \A t \in TaskIds :
          /\ (tasks[t] = NoRow /\ tasks'[t] # NoRow) =>
               /\ last'.op = "create"
               /\ t = nextId /\ nextId' > nextId
               /\ last'.caller \in Users
               /\ tasks'[t].user_id = last'.caller
          /\ (tasks[t] # NoRow /\ tasks'[t] # NoRow) =>
               tasks'[t].user_id = tasks[t].user_id]_vars

\* The owner's update that names another user as the owner has answered 200 on
\* a shared task, and the task is still the caller's.
C23_Witness ==
  /\ last.op = "update"
  /\ last.code = 200
  /\ last.body.user_id \in {Val(u) : u \in Users \ {last.caller}}
  /\ tasks[last.taskId] # NoRow
  /\ tasks[last.taskId].user_id = last.caller
  /\ SharesOf(last.taskId) # {}

\* Task t existed and has been deleted.
Gone(t) == t < nextId /\ tasks[t] = NoRow

\* Request r has passed its ownership check and has not answered yet.
PastOwnerCheck(r) == inflight[r].pc \in {"update", "existing", "insert"}

\* C24: a deleted task never has a row again; an update or a share request
\* for it that had passed its ownership check before the delete answers with
\* an error; and no share row refers to a task that has no row.
C24_DeletedStaysDeleted ==
  [][/\ \A t \in TaskIds : Gone(t) => tasks'[t] = NoRow
     /\ \A r \in Slots :
          (/\ PastOwnerCheck(r)
           /\ Gone(inflight[r].taskId)
           /\ inflight'[r].pc = "done") => inflight'[r].code >= 400
     /\ \A s \in shares' : tasks'[s.task_id] # NoRow]_vars

\* The task was deleted while an update that sets a column and a share request
\* that had found no share were under way; both have answered 500.
C24_Witness ==
  \E r \in Slots, q \in Slots :
    /\ inflight[r].pc = "done" /\ inflight[q].pc = "done"
    /\ "order" \in DOMAIN inflight[r] /\ "checked" \in DOMAIN inflight[q]
    /\ inflight[r].order > 0 /\ Present(inflight[r].body) # {}
    /\ inflight[r].body.status # Val("bogus")
    /\ inflight[q].checked
    /\ inflight[r].code = 500 /\ inflight[q].code = 500
    /\ Gone(inflight[r].taskId) /\ Gone(inflight[q].taskId)
    /\ shares = {}

\* C25: once the task list has loaded and every request it sent has been
\* answered, it holds exactly the user's tasks, each once and with the row the
\* server holds.
C25_ListMatchesServer ==
  (/\ view.userId # NoUser
   /\ ~view.loading
   /\ \A r \in Slots : inflight[r] = NoRequest) =>
    /\ {view.tasks[i].id : i \in 1..Len(view.tasks)} =
         {t \in TaskIds : tasks[t] # NoRow /\ tasks[t].user_id = view.userId}
    /\ \A i, j \in 1..Len(view.tasks) :
         view.tasks[i].id = view.tasks[j].id => i = j
    /\ \A i \in 1..Len(view.tasks) :
         view.tasks[i].task = tasks[view.tasks[i].id]

\* C26: once no debounce timer is pending and every search response has
\* arrived, the share dialog shows the profiles that match the query in the
\* field, and none when the query is blank.
C26_ResultsMatchQuery ==
  (/\ view.userId # NoUser
   /\ ~view.timer
   /\ \A r \in Slots : inflight[r] = NoRequest) =>
    view.searchResults =
      IF Trim(view.searchQuery) = <<>> THEN {}
      ELSE SearchMatches(Users, view.userId, view.searchQuery)

\* The requests to the task routes that were sent without a session
ApiWithoutSession ==
  /\ last.op \in {"middleware", "handler"}
  /\ last.body \in ApiPaths
  /\ last.caller = NoUser

\* The path ends in one of the image extensions the matcher leaves out.
ImagePath(path) == path # <<>> /\ path[Len(path)] \in ImageSuffixes

C29_SharesAreViewByOwner ==
  [][/\ \A s \in shares' :
          /\ s.permission = "view"
          /\ tasks'[s.task_id] # NoRow
          /\ s.shared_by_user_id = tasks'[s.task_id].user_id
     /\ shares' \ shares # {} =>
          /\ last'.op = "share" /\ last'.code = 201
          /\ shares' = shares \cup {last'.result}
          /\ last'.result.shared_by_user_id = last'.caller]_vars

\* A share request of the owner has answered 201 with a view share made by
\* the caller, and the row is stored.
C29_Witness ==
  /\ last.op = "share"
  /\ last.code = 201
  /\ last.result \in shares
  /\ last.result.permission = "view"
  /\ last.result.shared_by_user_id = last.caller
  /\ tasks[last.taskId].user_id = last.caller

====
